---- MODULE Spec2Model ----
(***************************************************************************)
(* Model of the Netscape bookmark-file parser: the Folder builder          *)
(* (src/src/folder.rs) and the Document builder (src/src/netscape.rs).     *)
(*                                                                         *)
(* A String is a sequence of text tokens (String::new() is << >>).  A      *)
(* markup node is a record [tag, attrs, text, kids]; a NodeRef is a pair   *)
(* (root, path), path being the sequence of child indexes from the root.   *)
(* Option<T> is None or Some(v); Result<T, Error> is Ok(v) or Err.         *)
(***************************************************************************)
EXTENDS Integers, Sequences, FiniteSets, TLC

VARIABLES doc, op, arg, res

vars == <<doc, op, arg, res>>

\* ------------------------------------------------------------------ bounds
MaxKids == 2   \* longest list of entries in one list container
MaxNest == 3   \* deepest chain of nested folders
MaxCut  == 2   \* most trailing tokens cut off a raw text

\* ------------------------------------------------------- Option and Result
None == [some |-> FALSE]
Some(v) == [some |-> TRUE, val |-> v]
Err == [ok |-> FALSE]
Ok(v) == [ok |-> TRUE, val |-> v]

EmptyString == << >>

\* ------------------------------------------------------------- markup tree
NoAttrs == [x \in {} |-> EmptyString]

El(tag, attrs, kids) == [tag |-> tag, attrs |-> attrs, text |-> EmptyString, kids |-> kids]

Txt(t) == [tag |-> "#text", attrs |-> NoAttrs, text |-> <<t>>, kids |-> << >>]

RECURSIVE NodeAt(_, _)
NodeAt(root, path) ==
  IF path = << >> THEN root ELSE NodeAt(root.kids[Head(path)], Tail(path))

Front(path) == SubSeq(path, 1, Len(path) - 1)

Last(path) == path[Len(path)]

\* every node of the tree, in document order (a node before its descendants)
RECURSIVE Descendants(_, _)
RECURSIVE DescendantsFrom(_, _, _)
Descendants(root, path) == <<path>> \o DescendantsFrom(root, path, 1)

DescendantsFrom(root, path, k) ==
  IF k > Len(NodeAt(root, path).kids) THEN << >>
  ELSE Descendants(root, path \o <<k>>) \o DescendantsFrom(root, path, k + 1)

\* the tag and attribute names the parser stores are lower case; the builders
\* ask for them in upper case
ToLower(name) ==
  CASE name = "DT" -> "dt"
    [] name = "DL" -> "dl"
    [] name = "H3" -> "h3"
    [] name = "H1" -> "h1"
    [] name = "A" -> "a"
    [] name = "TITLE" -> "title"
    [] name = "FOLDED" -> "folded"
    [] name = "ADD_DATE" -> "add_date"
    [] name = "LAST_MODIFIED" -> "last_modified"
    [] name = "LAST_VISIT" -> "last_visit"
    [] name = "HREF" -> "href"
    [] name = "PERSONAL_TOOLBAR_FOLDER" -> "personal_toolbar_folder"
    [] name = "UNFILED_BOOKMARKS_FOLDER" -> "unfiled_bookmarks_folder"
    [] OTHER -> name

is_element(node, name) == node.tag = ToLower(name)

select_attribute(node, name) ==
  IF ToLower(name) \in DOMAIN node.attrs
  THEN Some([value |-> node.attrs[ToLower(name)]])
  ELSE None

RECURSIVE text_contents(_)
RECURSIVE TextOfKids(_, _)
text_contents(node) == node.text \o TextOfKids(node.kids, 1)

TextOfKids(kids, k) ==
  IF k > Len(kids) THEN EmptyString
  ELSE text_contents(kids[k]) \o TextOfKids(kids, k + 1)

\* first descendant with the tag, in document order
RECURSIVE FirstWithTag(_, _, _)
FirstWithTag(root, paths, name) ==
  IF paths = << >> THEN None
  ELSE IF is_element(NodeAt(root, Head(paths)), name) THEN Some(Head(paths))
  ELSE FirstWithTag(root, Tail(paths), name)

select_text(root, name) ==
  LET found == FirstWithTag(root, Descendants(root, << >>), name)
  IN  IF found.some THEN Some(text_contents(NodeAt(root, found.val))) ELSE None

\* ------------------------------------------------------------ typed tree
FolderDefault ==
  [title |-> EmptyString, folded |-> FALSE, add_date |-> EmptyString,
   last_modified |-> EmptyString, personal_toolbar_folder |-> FALSE,
   unfiled_bookmarks_folder |-> FALSE, children |-> << >>]

Subfolder(folder) == [kind |-> "Subfolder", val |-> folder]

Shortcut(bookmark) == [kind |-> "Shortcut", val |-> bookmark]

\* `if node.select_attribute(NAME).is_some() { builder.flag(true) }`
flag_present_with_value(node, name) ==
  select_attribute(node, name).some
    /\ select_attribute(node, name).val.value # EmptyString

flag_present(node, name) == select_attribute(node, name).some

\* `if let Some(attribute) = node.select_attribute(NAME) { builder.field(attribute.value) }`
attribute_value(node, name, default) ==
  IF select_attribute(node, name).some
  THEN select_attribute(node, name).val.value
  ELSE default

\* `children.push(item)`
push_front(children, item) == <<item>> \o children

push(children, item) == Append(children, item)

\* `node.children().find(|n| n.is_element("H3"))`: the index of the child
find_h3_none(node) == None

find_h3(node) ==
  LET hs == {k \in 1..Len(node.kids) : is_element(node.kids[k], "H3")}
  IN  IF hs = {} THEN None ELSE Some(CHOOSE k \in hs : \A j \in hs : k <= j)

\* `else if node.is_element("H3")`
is_header_or_other(node) == ~is_element(node, "DT")

is_header(node) == is_element(node, "H3")

\* `builder.build()`: every field has a default, so the build succeeds
build(builder) == Ok(builder)

Bookmark_from_node(node) ==
  [href |-> attribute_value(node, "HREF", EmptyString),
   title |-> text_contents(node),
   add_date |-> attribute_value(node, "ADD_DATE", EmptyString),
   last_visit |-> attribute_value(node, "LAST_VISIT", EmptyString),
   last_modified |-> attribute_value(node, "LAST_MODIFIED", EmptyString)]

find_anchor(node) ==
  LET hs == {k \in 1..Len(node.kids) : is_element(node.kids[k], "A")}
  IN  IF hs = {} THEN None ELSE Some(CHOOSE k \in hs : \A j \in hs : k <= j)

RECURSIVE Folder_from_node(_, _)
RECURSIVE Item_from_node(_, _)
RECURSIVE list_children(_, _, _, _)
RECURSIVE sibling_children(_, _, _, _)

\* `for child in sibling.children()`, from child k on, with `children` so far
list_children(root, dl, k, children) ==
  IF k > Len(NodeAt(root, dl).kids) THEN children
  ELSE LET item == Item_from_node(root, dl \o <<k>>)
       IN  list_children(root, dl, k + 1,
                         IF item.some THEN push(children, item.val) ELSE children)

\* `for sibling in node.following_siblings()`, from sibling k of the parent on;
\* `children` is what the builder holds so far
sibling_children(root, parent, k, children) ==
  IF k > Len(NodeAt(root, parent).kids) THEN children
  ELSE IF is_element(NodeAt(root, parent \o <<k>>), "DL")
       THEN sibling_children(root, parent, k + 1,
                             list_children(root, parent \o <<k>>, 1, << >>))
       ELSE sibling_children(root, parent, k + 1, children)

\* the builder after the H3 branch has set its fields
header_builder(root, path) ==
  LET node == NodeAt(root, path)
  IN  [title |-> text_contents(node),
       folded |-> flag_present(node, "FOLDED"),
       add_date |-> attribute_value(node, "ADD_DATE", FolderDefault.add_date),
       last_modified |->
         attribute_value(node, "LAST_MODIFIED", FolderDefault.last_modified),
       personal_toolbar_folder |-> flag_present(node, "PERSONAL_TOOLBAR_FOLDER"),
       unfiled_bookmarks_folder |-> flag_present(node, "UNFILED_BOOKMARKS_FOLDER"),
       children |->
         IF path = << >> THEN FolderDefault.children
         ELSE sibling_children(root, Front(path), Last(path) + 1,
                               FolderDefault.children)]

Folder_from_node(root, path) ==
  LET node == NodeAt(root, path)
  IN  IF is_element(node, "DT")
      THEN IF find_h3(node).some
           THEN Folder_from_node(root, path \o <<find_h3(node).val>>)
           ELSE None
      ELSE IF is_header(node)
           THEN LET built == build(header_builder(root, path))
                IN  IF built.ok THEN Some(built.val) ELSE None
           ELSE None

Item_from_node(root, path) ==
  LET node == NodeAt(root, path)
      folder == Folder_from_node(root, path)
  IN  IF folder.some THEN Some(Subfolder(folder.val))
      ELSE IF is_element(node, "A") THEN Some(Shortcut(Bookmark_from_node(node)))
      ELSE IF is_element(node, "DT") /\ find_anchor(node).some
           THEN Some(Shortcut(Bookmark_from_node(node.kids[find_anchor(node).val])))
           ELSE None

\* impl PartialEq for Folder; Item and Bookmark compare field by field
RECURSIVE Folder_eq(_, _)
RECURSIVE Item_eq(_, _)
RECURSIVE Items_eq(_, _)
Folder_eq(a, b) ==
  a.add_date = b.add_date /\ a.title = b.title /\ Items_eq(a.children, b.children)

Item_eq(a, b) ==
  /\ a.kind = b.kind
  /\ IF a.kind = "Subfolder" THEN Folder_eq(a.val, b.val) ELSE a.val = b.val

Items_eq(xs, ys) ==
  /\ Len(xs) = Len(ys)
  /\ \A k \in 1..Len(xs) : Item_eq(xs[k], ys[k])

\* ---------------------------------------------------------------- Document
\* `node.select("DL > DT")`: every DT whose parent is a DL, in document order
RECURSIVE select_dl_dt(_, _)
select_dl_dt(root, paths) ==
  IF paths = << >> THEN << >>
  ELSE LET p == Head(paths)
           hit == /\ p # << >>
                  /\ is_element(NodeAt(root, p), "DT")
                  /\ is_element(NodeAt(root, Front(p)), "DL")
       IN  (IF hit THEN <<p>> ELSE << >>) \o select_dl_dt(root, Tail(paths))

netscape_push_front(children, item) == <<item>> \o children

netscape_push(children, item) == Append(children, item)

RECURSIVE selection_children(_, _, _)
selection_children(root, selection, children) ==
  IF selection = << >> THEN children
  ELSE LET item == Item_from_node(root, Head(selection))
       IN  selection_children(root, Tail(selection),
             IF item.some THEN netscape_push(children, item.val) ELSE children)

netscape_built(root) ==
  LET title == select_text(root, "TITLE")
      h1 == select_text(root, "H1")
  IN  [title |-> IF title.some THEN title.val ELSE EmptyString,
       h1 |-> IF h1.some THEN h1.val ELSE EmptyString,
       children |->
         selection_children(root, select_dl_dt(root, Descendants(root, << >>)), << >>)]

Netscape_from_node_strict(root) ==
  IF select_text(root, "TITLE").some THEN Ok(netscape_built(root)) ELSE Err

Netscape_from_node(root) == Ok(netscape_built(root))

Netscape_eq_no_h1(a, b) == a.title = b.title /\ Items_eq(a.children, b.children)

Netscape_eq(a, b) ==
  a.title = b.title /\ a.h1 = b.h1 /\ Items_eq(a.children, b.children)

Netscape_to_string(netscape) == EmptyString

\* `parse_html().one(raw)`: a raw text is a sequence of tokens; the tree builder
\* keeps a stack of open elements (the body first), closes an element at its
\* end tag, ignores an end tag that matches no open element and closes what
\* is still open at the end of the text
OpenTag(tag, attrs) == [kind |-> "open", tag |-> tag, attrs |-> attrs]

CloseTag(tag) == [kind |-> "close", tag |-> tag]

TextToken(t) == [kind |-> "text", text |-> t]

add_kid(stack, kid) ==
  [stack EXCEPT ![Len(stack)] = [@ EXCEPT !.kids = Append(@, kid)]]

pop_one(stack) == add_kid(SubSeq(stack, 1, Len(stack) - 1), stack[Len(stack)])

RECURSIVE pop_to(_, _)
pop_to(stack, depth) == IF Len(stack) < depth THEN stack ELSE pop_to(pop_one(stack), depth)

RECURSIVE tree_builder(_, _, _)
tree_builder(raw, k, stack) ==
  IF k > Len(raw) THEN pop_to(stack, 2)[1]
  ELSE LET tok == raw[k]
           open == {i \in 2..Len(stack) : tok.kind = "close" /\ stack[i].tag = tok.tag}
       IN  CASE tok.kind = "open" ->
                  tree_builder(raw, k + 1, Append(stack, El(tok.tag, tok.attrs, << >>)))
             [] tok.kind = "text" ->
                  tree_builder(raw, k + 1, add_kid(stack, Txt(tok.text)))
             [] OTHER ->
                  IF open = {} THEN tree_builder(raw, k + 1, stack)
                  ELSE tree_builder(raw, k + 1,
                         pop_to(stack, CHOOSE i \in open : \A j \in open : j <= i))

parse_html(raw) ==
  El("#document", NoAttrs,
     <<El("html", NoAttrs,
          <<El("head", NoAttrs, << >>),
            tree_builder(raw, 1, <<El("body", NoAttrs, << >>)>>)>>)>>)

Netscape_from_string(raw) == Netscape_from_node(parse_html(raw))

\* `parse_html().from_utf8().from_file(path).and_then(...)`
Netscape_from_file(readable, content) ==
  IF readable THEN Netscape_from_node(parse_html(content)) ELSE Err

\* ------------------------------------------------------------------ inputs
SeqsUpTo(S, n) == UNION {[1..k -> S] : k \in 0..n}

Anchor(t) == El("a", "href" :> <<"url", t>>, <<Txt(t)>>)

Entry(t) == El("dt", NoAttrs, <<Anchor(t)>>)

Unknown == El("p", NoAttrs, << >>)

Header(t, attrs) == El("h3", attrs, <<Txt(t)>>)

List(kids) == El("dl", NoAttrs, kids)

FolderEntry(t, attrs, lists) == El("dt", NoAttrs, <<Header(t, attrs)>> \o lists)

UnknownWrapper == El("div", NoAttrs, <<List(<<Entry("b")>>)>>)

InnerItems == {Entry("a"), Entry("b"), Unknown}

InnerLists == {List(s) : s \in SeqsUpTo(InnerItems, MaxKids)}

NestedFolders ==
  {FolderEntry("f", NoAttrs, <<l>>) : l \in InnerLists}
    \cup {FolderEntry("f", NoAttrs, <<l, List(<<Entry("b")>>)>>) : l \in InnerLists}

FlatItems ==
  {Entry("a"), Entry("b"), Unknown, UnknownWrapper, FolderEntry("g", NoAttrs, << >>),
   Header("h", NoAttrs), List(<<Entry("a")>>)}

SideItems == {Entry("a"), Unknown, UnknownWrapper}

TopLists ==
  {List(s) : s \in SeqsUpTo(FlatItems, MaxKids)}
    \cup {List(<<f>>) : f \in NestedFolders}
    \cup {List(<<x, f>>) : x \in SideItems, f \in NestedFolders}
    \cup {List(<<f, x>>) : x \in SideItems, f \in NestedFolders}

\* a chain of n folders, each holding only the next one
RECURSIVE Chain(_, _, _)
Chain(level, n, inner) ==
  IF level = n THEN FolderEntry(ToString(level), NoAttrs, inner)
  ELSE FolderEntry(ToString(level), NoAttrs, <<List(<<Chain(level + 1, n, inner)>>)>>)

ChainLists ==
  {List(<<Chain(1, n, inner)>>) :
     n \in 1..MaxNest, inner \in {<< >>, <<List(<< >>)>>, <<List(<<Entry("a")>>)>>}}

FlagNames == {"folded", "personal_toolbar_folder", "unfiled_bookmarks_folder"}

FlagValues == {EmptyString, <<"false">>}

DateAttrs == {NoAttrs, ("add_date" :> <<"date">>) @@ ("last_modified" :> <<"date">>)}

HeaderAttrs ==
  {f @@ d : f \in UNION {[D -> FlagValues] : D \in SUBSET FlagNames}, d \in DateAttrs}

HeaderLists ==
  {List(<<FolderEntry("f", attrs, lists)>>) :
     attrs \in HeaderAttrs, lists \in {<< >>, <<List(<< >>)>>}}

Document(title, h1, lists) ==
  El("#document", NoAttrs,
     <<El("html", NoAttrs,
          <<El("head", NoAttrs,
               IF title THEN <<El("title", NoAttrs, <<Txt("t")>>)>> ELSE << >>),
            El("body", NoAttrs,
               (IF h1 THEN <<El("h1", NoAttrs, <<Txt("h")>>)>> ELSE << >>) \o lists)>>)>>)

Documents ==
  {Document(TRUE, TRUE, <<l>>) : l \in TopLists \cup ChainLists \cup HeaderLists}
    \cup {Document(title, h1, lists) :
            title \in BOOLEAN, h1 \in BOOLEAN,
            lists \in {<< >>, <<List(<< >>)>>, <<List(<<Entry("a")>>)>>}}

\* the text of a tree: what a file holding the document reads as
RECURSIVE Serialize(_)
RECURSIVE SerializeAll(_, _)
Serialize(node) ==
  IF node.tag = "#text" THEN <<TextToken(node.text[1])>>
  ELSE IF node.tag \in {"#document", "html", "head", "body"}
       THEN SerializeAll(node.kids, 1)
       ELSE <<OpenTag(node.tag, node.attrs)>> \o SerializeAll(node.kids, 1)
              \o <<CloseTag(node.tag)>>

SerializeAll(kids, k) ==
  IF k > Len(kids) THEN << >> ELSE Serialize(kids[k]) \o SerializeAll(kids, k + 1)

PathsOf(root) ==
  LET paths == Descendants(root, << >>) IN {paths[k] : k \in 1..Len(paths)}

\* a second Document to compare with: the same one, or one field changed
SetFolded(items) ==
  [k \in 1..Len(items) |->
     IF items[k].kind = "Subfolder"
     THEN Subfolder([items[k].val EXCEPT !.folded = ~@, !.last_modified = <<"later">>])
     ELSE items[k]]

SetAddDate(items) ==
  [k \in 1..Len(items) |->
     IF items[k].kind = "Subfolder"
     THEN Subfolder([items[k].val EXCEPT !.add_date = <<"other">>])
     ELSE items[k]]

Changes == {"same", "title", "h1", "drop", "folded", "add_date"}

Changed(a, change) ==
  CASE change = "title" -> [a EXCEPT !.title = <<"other">>]
    [] change = "h1" -> [a EXCEPT !.h1 = <<"other">>]
    [] change = "drop" -> [a EXCEPT !.children = SubSeq(@, 1, Len(@) - 1)]
    [] change = "folded" -> [a EXCEPT !.children = SetFolded(@)]
    [] change = "add_date" -> [a EXCEPT !.children = SetAddDate(@)]
    [] OTHER -> a

\* ----------------------------------------------------------- state machine
\* one call is made on the parsed document: the builders are pure functions of
\* the tree and keep nothing between calls
Init ==
  /\ doc \in Documents
  /\ op = "new"
  /\ arg = << >>
  /\ res = None

FolderFromNode ==
  /\ op = "new"
  /\ \E path \in PathsOf(doc) :
       /\ op' = "Folder::from_node"
       /\ arg' = path
       /\ res' = Folder_from_node(doc, path)
       /\ UNCHANGED doc

NetscapeFromNode ==
  /\ op = "new"
  /\ op' = "Netscape::from_node"
  /\ arg' = << >>
  /\ res' = Netscape_from_node(doc)
  /\ UNCHANGED doc

NetscapeFromString ==
  /\ op = "new"
  /\ \E cut \in 0..MaxCut :
       /\ cut <= Len(Serialize(doc))
       /\ op' = "Netscape::from_string"
       /\ arg' = SubSeq(Serialize(doc), 1, Len(Serialize(doc)) - cut)
       /\ res' = Netscape_from_string(arg')
       /\ UNCHANGED doc

NetscapeFromFile ==
  /\ op = "new"
  /\ \E readable \in BOOLEAN :
       /\ op' = "Netscape::from_file"
       /\ arg' = readable
       /\ res' = Netscape_from_file(readable, Serialize(doc))
       /\ UNCHANGED doc

NetscapeToString ==
  /\ op = "new"
  /\ op' = "Netscape::to_string"
  /\ arg' = Netscape_from_node(doc).val
  /\ res' = Netscape_to_string(arg')
  /\ UNCHANGED doc

NetscapeEq ==
  /\ op = "new"
  /\ \E change \in Changes :
       /\ op' = "Netscape::eq"
       /\ arg' = <<Netscape_from_node(doc).val,
                   Changed(Netscape_from_node(doc).val, change)>>
       /\ res' = Netscape_eq(arg'[1], arg'[2])
       /\ UNCHANGED doc

Next ==
  \/ FolderFromNode
  \/ NetscapeFromNode
  \/ NetscapeFromString
  \/ NetscapeFromFile
  \/ NetscapeToString
  \/ NetscapeEq

Spec == Init /\ [][Next]_vars

\* ------------------------------------------------- vocabulary of the claims
\* the items the variant resolver gives for the direct children of the list
\* container at `dl`, in the order of the children
Resolved(root, dl) ==
  LET hits == {k \in 1..Len(NodeAt(root, dl).kids) : Item_from_node(root, dl \o <<k>>).some}
      nth(i) == CHOOSE k \in hits : Cardinality({j \in hits : j <= k}) = i
  IN  [i \in 1..Cardinality(hits) |-> Item_from_node(root, dl \o <<nth(i)>>).val]

\* the list containers among the following siblings of the node at `path`
FollowingLists(root, path) ==
  IF path = << >> THEN {}
  ELSE {k \in (Last(path) + 1)..Len(NodeAt(root, Front(path)).kids) :
          NodeAt(root, Front(path) \o <<k>>).tag = "dl"}

\* the header a call on the node at `path` builds from: the node itself, or
\* the first H3 child of an item wrapper
HeaderOf(root, path) ==
  LET node == NodeAt(root, path)
      hs == IF node.tag = "dt" THEN {k \in 1..Len(node.kids) : node.kids[k].tag = "h3"}
            ELSE {}
  IN  IF node.tag = "h3" THEN Some(path)
      ELSE IF hs # {} THEN Some(path \o <<CHOOSE k \in hs : \A j \in hs : k <= j>>)
      ELSE None

\* p comes before q in document order
Before(p, q) ==
  \/ Len(p) < Len(q) /\ SubSeq(q, 1, Len(p)) = p
  \/ \E i \in 1..Len(p) :
       /\ i <= Len(q)
       /\ SubSeq(p, 1, i - 1) = SubSeq(q, 1, i - 1)
       /\ p[i] < q[i]

\* the item wrappers of list containers that yield an Item
Entries(root) ==
  {p \in PathsOf(root) :
     /\ p # << >>
     /\ NodeAt(root, p).tag = "dt"
     /\ NodeAt(root, Front(p)).tag = "dl"
     /\ Item_from_node(root, p).some}

InOrder(root, sources) ==
  LET nth(i) == CHOOSE p \in sources : Cardinality({q \in sources : Before(q, p)}) = i - 1
  IN  [i \in 1..Cardinality(sources) |-> Item_from_node(root, nth(i)).val]

HasTag(root, tag) == \E p \in PathsOf(root) : NodeAt(root, p).tag = tag

\* the tree a Netscape operation of the state was applied to
ParsedTree ==
  CASE op = "Netscape::from_string" -> parse_html(arg)
    [] op = "Netscape::from_file" -> parse_html(Serialize(doc))
    [] OTHER -> doc

\* ------------------------------------------------------------------ claims
\* C1: the Document built by Netscape::from_node holds exactly one Item per
\* recognized direct child of the top-level list container (the first DL in
\* document order), in order; an entry of a nested folder's list container is
\* not also a root-level child.
C1_RootChildrenAreTopLevelOnly ==
  op = "Netscape::from_node" =>
    LET top == FirstWithTag(doc, Descendants(doc, << >>), "DL")
    IN  /\ res.ok
        /\ res.val.children = IF top.some THEN Resolved(doc, top.val) ELSE << >>

\* C2: a folder header's children are those resolved from the first following
\* sibling that is a list container; later DL siblings do not change them.
C2_ChildrenFromFirstList ==
  (op = "Folder::from_node" /\ NodeAt(doc, arg).tag = "h3") =>
    LET lists == FollowingLists(doc, arg)
        first == CHOOSE k \in lists : \A j \in lists : k <= j
    IN  /\ res.some
        /\ res.val.children =
             IF lists = {} THEN << >> ELSE Resolved(doc, Front(arg) \o <<first>>)

\* C3: parsing the text Netscape::to_string renders for a built Document gives
\* back a Document equal to it in title and (recursively) in children.
C3_DocumentRoundTrip ==
  op = "Netscape::to_string" =>
    LET back == Netscape_from_string(res)
    IN  /\ back.ok
        /\ back.val.title = arg.title
        /\ Items_eq(back.val.children, arg.children)

\* C4: the children of every built Folder are the Items of the direct children
\* of one list container following its header, in the order of those children,
\* and the children of the built Document are the Items of the item wrappers
\* it was built from, in document order.
C4_OrderPreserved ==
  /\ (op = "Folder::from_node" /\ res.some) =>
       LET header == HeaderOf(doc, arg).val
           lists == FollowingLists(doc, header)
       IN  IF lists = {} THEN res.val.children = << >>
           ELSE \E k \in lists : res.val.children = Resolved(doc, Front(header) \o <<k>>)
  /\ op = "Netscape::from_node" =>
       res.val.children = InOrder(doc, Entries(doc))

\* a folder was built with two different children, and a Document too
C4_Witness ==
  /\ op = "Folder::from_node"
  /\ res.some
  /\ Len(res.val.children) >= 2
  /\ res.val.children[1] # res.val.children[2]
  /\ Len(Netscape_from_node(doc).val.children) >= 3

\* the tree without the node at `path`
RECURSIVE Without(_, _)
Without(node, path) ==
  IF Len(path) = 1
  THEN [node EXCEPT !.kids = SubSeq(@, 1, path[1] - 1) \o SubSeq(@, path[1] + 1, Len(@))]
  ELSE [node EXCEPT !.kids[path[1]] = Without(@, Tail(path))]

\* where the node at `path` is once the node at `gone` is taken out
Moved(path, gone) ==
  LET n == Len(gone)
  IN  IF Len(path) >= n /\ SubSeq(path, 1, n - 1) = Front(gone) /\ path[n] > gone[n]
      THEN [path EXCEPT ![n] = @ - 1]
      ELSE path

Inside(path, gone) == Len(path) >= Len(gone) /\ SubSeq(path, 1, Len(gone)) = gone

\* the children of list containers that are elements of unrecognized shape:
\* no Item is resolved from them, and they are not list containers themselves
Unrecognized(root) ==
  {p \in PathsOf(root) :
     /\ p # << >>
     /\ NodeAt(root, Front(p)).tag = "dl"
     /\ NodeAt(root, p).tag \notin {"#text", "dl"}
     /\ ~Item_from_node(root, p).some}

C5_FolderUnaffected ==
  op = "Folder::from_node" =>
    \A gone \in Unrecognized(doc) :
      ~Inside(arg, gone) => res = Folder_from_node(Without(doc, gone), Moved(arg, gone))

C5_DocumentUnaffected ==
  op = "Netscape::from_node" =>
    \A gone \in Unrecognized(doc) : res.ok /\ res = Netscape_from_node(Without(doc, gone))

\* C5: an element of unrecognized shape among the children of a list container
\* is left out of the built Folder or Document, no error is returned, and the
\* result is the one built from the same tree without that element.
C5_UnrecognizedOmitted == C5_FolderUnaffected /\ C5_DocumentUnaffected

\* C6: Netscape::from_node and Netscape::from_string return Ok for every
\* input; a tree without TITLE gives an empty title, one without H1 an empty
\* h1, one without a list container no children; Err comes only from
\* Netscape::from_file, when reading the file fails.
C6_ParsingNeverFails ==
  op \in {"Netscape::from_node", "Netscape::from_string", "Netscape::from_file"} =>
    /\ op # "Netscape::from_file" => res.ok
    /\ ~res.ok => (op = "Netscape::from_file" /\ arg = FALSE)
    /\ res.ok =>
         /\ ~HasTag(ParsedTree, "title") => res.val.title = EmptyString
         /\ ~HasTag(ParsedTree, "h1") => res.val.h1 = EmptyString
         /\ ~HasTag(ParsedTree, "dl") => res.val.children = << >>

\* a text cut short, without TITLE, was parsed into an empty Document
C6_Witness ==
  /\ op = "Netscape::from_string"
  /\ arg # Serialize(doc)
  /\ ~HasTag(ParsedTree, "title")
  /\ res.ok
  /\ res.val.title = EmptyString
  /\ res.val.children = << >>

\* the identifying fields of the items: title and add_date of a folder and,
\* recursively, of its children; every field of a shortcut
RECURSIVE Identity(_)
Identity(items) ==
  [k \in 1..Len(items) |->
     IF items[k].kind = "Subfolder"
     THEN [title |-> items[k].val.title, add_date |-> items[k].val.add_date,
           children |-> Identity(items[k].val.children)]
     ELSE items[k]]

\* C7 as stated: two Documents compare equal exactly when their titles are
\* equal and their children are recursively equal.
C7_EqualByTitleAndChildren ==
  op = "Netscape::eq" =>
    (res <=> /\ arg[1].title = arg[2].title
             /\ Identity(arg[1].children) = Identity(arg[2].children))

\* C7 as amended: two Documents compare equal exactly when their titles are
\* equal, their h1 headings are equal and their children are recursively equal.
C7_EqualByTitleH1AndChildren ==
  op = "Netscape::eq" =>
    (res <=> /\ arg[1].title = arg[2].title
             /\ arg[1].h1 = arg[2].h1
             /\ Identity(arg[1].children) = Identity(arg[2].children))

\* two Documents with children that differ in h1 only compared unequal
C7_Witness ==
  /\ op = "Netscape::eq"
  /\ ~res
  /\ arg[1].h1 # arg[2].h1
  /\ arg[1].title = arg[2].title
  /\ arg[1].children = arg[2].children
  /\ arg[1].children # << >>

\* C8: on a folder header with no following DL sibling Folder::from_node gives
\* Some(Folder) with no children; on a node that is neither an H3 nor a DT
\* with an H3 child it gives None.
C8_EmptyFolderIsNotNone ==
  op = "Folder::from_node" =>
    /\ (NodeAt(doc, arg).tag = "h3" /\ FollowingLists(doc, arg) = {}) =>
         (res.some /\ res.val.children = << >>)
    /\ ~HeaderOf(doc, arg).some => res = None

\* a header without a list container gave an empty folder
C8_Witness ==
  /\ op = "Folder::from_node"
  /\ NodeAt(doc, arg).tag = "h3"
  /\ FollowingLists(doc, arg) = {}
  /\ res.some
  /\ res.val.children = << >>
  /\ \E p \in PathsOf(doc) : ~HeaderOf(doc, p).some /\ NodeAt(doc, p).tag = "p"

\* C9: each of folded, personal_toolbar_folder and unfiled_bookmarks_folder of
\* the built Folder is true exactly when the header carries the attribute,
\* whatever its value.
C9_FlagsByPresence ==
  (op = "Folder::from_node" /\ HeaderOf(doc, arg).some) =>
    LET header == NodeAt(doc, HeaderOf(doc, arg).val)
    IN  /\ res.some
        /\ res.val.folded <=> "folded" \in DOMAIN header.attrs
        /\ res.val.personal_toolbar_folder <=>
             "personal_toolbar_folder" \in DOMAIN header.attrs
        /\ res.val.unfiled_bookmarks_folder <=>
             "unfiled_bookmarks_folder" \in DOMAIN header.attrs

\* a header with a FOLDED attribute without value, and no
\* PERSONAL_TOOLBAR_FOLDER attribute, gave folded and not a toolbar folder
C9_Witness ==
  /\ op = "Folder::from_node"
  /\ NodeAt(doc, arg).tag = "h3"
  /\ DOMAIN NodeAt(doc, arg).attrs = {"folded", "unfiled_bookmarks_folder"}
  /\ NodeAt(doc, arg).attrs["folded"] = EmptyString
  /\ NodeAt(doc, arg).attrs["unfiled_bookmarks_folder"] = <<"false">>
  /\ res.some
  /\ res.val.folded
  /\ res.val.unfiled_bookmarks_folder
  /\ ~res.val.personal_toolbar_folder

\* the Folder is the outermost of exactly n nested folders, titled by level
RECURSIVE IsChain(_, _, _)
IsChain(folder, level, n) ==
  /\ folder.title = <<ToString(level)>>
  /\ IF level = n THEN folder.children = << >>
     ELSE /\ Len(folder.children) = 1
          /\ folder.children[1].kind = "Subfolder"
          /\ IsChain(folder.children[1].val, level + 1, n)

ChainDocument(n, inner) == Document(TRUE, TRUE, <<List(<<Chain(1, n, inner)>>)>>)

\* the item wrapper of the outermost folder of a ChainDocument
ChainPath == <<1, 2, 2, 1>>

\* C10: on the item wrapper of a chain of n folders, each holding only the
\* next one and the innermost nothing, Folder::from_node returns n nested
\* Folders: every one but the innermost has the next as its only child, and
\* the innermost has no children.
C10_NestingMirrored ==
  \A n \in 1..MaxNest, inner \in {<< >>, <<List(<< >>)>>} :
    (doc = ChainDocument(n, inner) /\ op = "Folder::from_node" /\ arg = ChainPath) =>
      (res.some /\ IsChain(res.val, 1, n))

\* the deepest chain was built
C10_Witness ==
  /\ doc = ChainDocument(MaxNest, << >>)
  /\ op = "Folder::from_node"
  /\ arg = ChainPath
  /\ res.some
  /\ IsChain(res.val, 1, MaxNest)
  /\ MaxNest >= 3

====
